---- MODULE Spec2Model ----
(***************************************************************************)
(* Model of the write-behind cache of collectd's rrdtool plugin            *)
(* (src/src/rrdtool.c): the cache of per-file value buffers, the update    *)
(* queue, the queue thread, the flush pass, shutdown and the allocation    *)
(* failures the code branches on.                                          *)
(***************************************************************************)
EXTENDS Integers, Sequences, FiniteSets, TLC

(***************************************************************************)
(* Bounds of the model.                                                    *)
(***************************************************************************)
NPaths == 2
MaxTs == 3
MaxNow == 3
MaxSubmits == 3
MaxFail == 1
MaxNodes == 4
MaxCfg == 2
\* the periodic runs: longest sampling period, largest CacheTimeout, last second looked at
Period == 1
PeriodicCacheTimeout == 3
Horizon == 12
\* the file names: longest string of an identity, longest DataDir value, sizeof (filename)
MaxStr == 1
MaxDir == 2
FilenameLen == 14
\* the archives: largest StepSize, RRARows, RRATimespan value, number of RRATimespan values
MaxStep == 3
MaxRows == 3
MaxSpan == 8
MaxSpans == 3
\* the settings: width of an int in bits, largest small CacheTimeout / CacheFlush value
IntBits == 16
MaxCfgValue == 7

(***************************************************************************)
(* Program constants.                                                      *)
(***************************************************************************)
FLAG_NONE == 0
FLAG_QUEUED == 1
NULL == 0
SHUTDOWN_TIMEOUT == -1
FLUSH_FACTOR == 10
MIN_CACHE_TIMEOUT == 2

\* CacheFlush as configured in these runs (the key unset is 0)
ConfigCacheFlush == {MaxCfg}

Paths == 1..NPaths
Times == 0..MaxTs
Nodes == 1..MaxNodes

Producers == {"p1"}
WORKER == "w"
SHUTDOWN == "sd"
Callers == Producers \cup {SHUTDOWN}
Threads == Callers \cup {WORKER}
NoThread == "none"

VARIABLES
    cache_timeout, cache_flush_timeout, cache_flush_last,
    cache,               \* the AVL tree: filename -> rrd_cache_t, for the keys present
    cache_null,          \* cache == NULL (after avl_destroy)
    cache_lock, queue_lock,   \* owner of each mutex, or NoThread
    queue_head, queue_tail,
    qnode,               \* the allocated rrd_queue_t: node -> [filename, next]
    signaled,            \* the queue thread, blocked in pthread_cond_wait, was signalled
    do_shutdown,
    now,                 \* time (NULL)
    pc,                  \* position of every thread
    arg,                 \* rrd_cache_insert's arguments, per producer
    qarg,                \* rrd_queue_cache_entry's argument, call site and status, per caller
    fl,                  \* rrd_cache_flush's locals, per caller
    wloc,                \* the queue thread's locals
    calls,               \* history: the outcome of every rrd_cache_insert call, by id
    updates,             \* history: every rrd_update call, in order
    nfails,              \* allocation / rrd_update failures injected so far
    crashed,             \* the process died (NULL tree, wild cache_entry, failed assert)
    assert_failed,       \* an assert of rrd_cache_flush failed
    overlap,             \* a submit was in progress or started once shutdown was called
    period,              \* the producer's sampling period, 0: values with any timestamps
    late,                \* a value was submitted after the second of its timestamp
    datadir,             \* the DataDir setting: [set, s], set = FALSE for NULL
    vl,                  \* the identity of a value list (type is the data set's)
    filename,            \* rrd_write's buffer after value_list_to_filename, and its status
    stepsize, rrarows,
    rra_timespans_custom,   \* the RRATimespan values, <<>> for none
    rra_def, rra_num,    \* rra_get's static variables
    rra_ret              \* what the last rra_get call returned: [status, ret]

vars == <<cache_timeout, cache_flush_timeout, cache_flush_last,
          cache, cache_null, cache_lock, queue_lock, queue_head, queue_tail, qnode,
          signaled, do_shutdown, now, pc, arg, qarg, fl, wloc, calls, updates, nfails, crashed, assert_failed, overlap,
          period, late, datadir, vl, filename,
          stepsize, rrarows, rra_timespans_custom, rra_def, rra_num, rra_ret>>

(***************************************************************************)
(* Helpers.                                                                *)
(***************************************************************************)
Min(S) == CHOOSE x \in S : \A y \in S : x <= y

RECURSIVE SortedKeys(_)
SortedKeys(S) == IF S = {} THEN <<>> ELSE <<Min(S)>> \o SortedKeys(S \ {Min(S)})

avl_insert(tree, key, rc) == [k \in DOMAIN tree \cup {key} |-> IF k = key THEN rc ELSE tree[k]]

avl_remove(tree, key) == [k \in DOMAIN tree \ {key} |-> tree[k]]

values_num(rc) == Len(rc.values)

\* ceil (a / b) for b > 0
CeilDiv(a, b) == (a + b - 1) \div b

\* a / b in int arithmetic, b > 0: the quotient is truncated towards zero
int_div(a, b) == IF a >= 0 THEN a \div b ELSE -((-a) \div b)

FreeNodes == Nodes \ DOMAIN qnode

\* the periodic runs are runs without failures
FailLimit == IF period = 0 THEN MaxFail ELSE 0

CanFail == nfails < FailLimit

At(t, label) == ~crashed /\ pc[t] = label

Goto(t, label) == pc' = [pc EXCEPT ![t] = label]

(***************************************************************************)
(* rrd_init: the normalisation of the two timeouts.                        *)
(***************************************************************************)
rrd_init_cache_timeout(ct) == IF ct < MIN_CACHE_TIMEOUT THEN 0 ELSE ct

INT_MAX == 2^(IntBits - 1) - 1

int_overflows(x) == (x > INT_MAX) \/ (x < -INT_MAX - 1)

\* a * b in int arithmetic where the build wraps an overflowing result
int_mul(a, b) == (((a * b) + INT_MAX + 1) % (2 * (INT_MAX + 1))) - INT_MAX - 1

rrd_init_cache_flush_timeout(ct, cf) ==
    IF ct < MIN_CACHE_TIMEOUT THEN 0
    ELSE IF cf < ct THEN int_mul(FLUSH_FACTOR, ct) ELSE cf

rrd_cache_new == [values |-> <<>>, values_null |-> TRUE, first_value |-> 0,
                  last_value |-> 0, flags |-> FLAG_NONE]

NoArg == [filename |-> 0, time |-> 0, id |-> 0]
NoQArg == [filename |-> 0, site |-> "none", status |-> 0]
NoFlush == [now |-> 0, iter |-> <<>>, keys |-> <<>>, timeout |-> 0]
NoWLoc == [queue_entry |-> NULL, values |-> <<>>]

Return(p, r) ==
    /\ calls' = [calls EXCEPT ![arg[p].id] = r]
    /\ arg' = [arg EXCEPT ![p] = NoArg]

\* the threads once rrd_init has created the queue thread
Started == [t \in Threads |-> IF t = WORKER THEN "w_lock"
                              ELSE IF t = SHUTDOWN THEN "sd_idle" ELSE "idle"]

\* the static initialisers, and the histories empty
InitStatics ==
    /\ late = FALSE
    /\ now = 0
    /\ cache_flush_last = 0
    /\ cache = <<>>
    /\ cache_lock = NoThread
    /\ queue_lock = NoThread
    /\ queue_head = NULL
    /\ queue_tail = NULL
    /\ qnode = <<>>
    /\ signaled = FALSE
    /\ do_shutdown = 0
    /\ arg = [p \in Producers |-> NoArg]
    /\ qarg = [t \in Callers |-> NoQArg]
    /\ fl = [t \in Callers |-> NoFlush]
    /\ wloc = NoWLoc
    /\ calls = <<>>
    /\ updates = <<>>
    /\ nfails = 0
    /\ crashed = FALSE
    /\ assert_failed = FALSE
    /\ overlap = FALSE

\* the state after rrd_init, for <<CacheTimeout, CacheFlush>> in cfgs
InitFor(cfgs, periods) ==
    /\ \E cfg \in cfgs :
          /\ cache_timeout = rrd_init_cache_timeout(cfg[1])
          /\ cache_flush_timeout = rrd_init_cache_flush_timeout(cfg[1], cfg[2])
    /\ period \in periods
    /\ cache_null = FALSE
    /\ pc = Started
    /\ InitStatics

\* no DataDir, no file name asked for
NoDataDir == [set |-> FALSE, s |-> <<>>]
NoIdent == [host |-> <<>>, plugin |-> <<>>, plugin_instance |-> <<>>,
            type |-> <<>>, type_instance |-> <<>>]
NoFilename == [buffer |-> <<>>, offset |-> 0, ret |-> 1]

InitNoFilename == datadir = NoDataDir /\ vl = NoIdent /\ filename = NoFilename

\* rra_get's statics before the first call, no call made
NoRraDef == [null |-> TRUE, defs |-> <<>>]
NoRraRet == [called |-> FALSE, status |-> 0, ret |-> <<>>]

InitNoRra ==
    /\ stepsize = 0
    /\ rrarows = 1200
    /\ rra_timespans_custom = <<>>
    /\ rra_def = NoRraDef
    /\ rra_num = 0
    /\ rra_ret = NoRraRet

Init == InitFor((0..MaxCfg) \X ConfigCacheFlush, {0}) /\ InitNoFilename /\ InitNoRra

\* one path sampled at a fixed period from second 0 on, caching enabled,
\* CacheFlush unset or equal to CacheTimeout
InitPeriodic ==
    InitFor(((MIN_CACHE_TIMEOUT..PeriodicCacheTimeout) \X {0}) \cup
            {<<ct, ct>> : ct \in MIN_CACHE_TIMEOUT..PeriodicCacheTimeout}, 1..Period)
    /\ InitNoFilename
    /\ InitNoRra

\* the settings and what is computed from them alone
filev == <<datadir, vl, filename>>
rrav == <<stepsize, rrarows, rra_timespans_custom, rra_def, rra_num, rra_ret>>
cfgv == <<cache_timeout, cache_flush_timeout, period, filev, rrav>>
queuev == <<queue_head, queue_tail, qnode>>
ghostv == <<crashed, assert_failed>>

(***************************************************************************)
(* time (NULL): the wall clock is seen only where the code reads it, so it *)
(* advances there, by any amount up to the bound.                          *)
(***************************************************************************)
ClockLimit == IF period = 0 THEN MaxNow ELSE Horizon

ReadTime == now' \in now..ClockLimit

(***************************************************************************)
(* rrd_write -> rrd_cache_insert (filename, value, value_time), from the   *)
(* call to the threshold test. The call does nothing before it owns        *)
(* cache_lock and touches only what the lock protects up to the test, so   *)
(* call, lock and body are one step; ids number the calls in lock order.   *)
(* The whole function runs under cache_lock, so the calls of different     *)
(* producer threads never overlap: the model has the one thread that is    *)
(* inside the call, and a call may start whenever the lock is free.        *)
(* The host makes no new write call once rrd_shutdown has returned (the    *)
(* queue thread sets cache to NULL some time after that).                  *)
(***************************************************************************)
CallLimit == IF period = 0 THEN MaxSubmits ELSE (Horizon \div period) + 1

\* the (filename, value_time) a call may bring: anything, or the next periodic
\* value of the one path
Inputs == IF period = 0 THEN Paths \X Times ELSE {<<Min(Paths), period * Len(calls)>>}

CanCall(p) ==
    /\ At(p, "idle")
    /\ Len(calls) < CallLimit
    /\ cache_lock = NoThread
    /\ pc[SHUTDOWN] # "sd_done"

Call(p, f, t, r) ==
    /\ arg' = [arg EXCEPT ![p] = [filename |-> f, time |-> t, id |-> Len(calls) + 1]]
    /\ calls' = Append(calls, r)
    /\ overlap' = (overlap \/ pc[SHUTDOWN] # "sd_idle")
    /\ now' = IF period > 0 /\ now < t THEN t ELSE now
    /\ late' = (late \/ (period > 0 /\ now > t))

Lookup(f) == IF f \in DOMAIN cache THEN cache[f] ELSE rrd_cache_new

\* a variant of the test that lets an equal timestamp through
insert_rejects_older(rc, value_time) == rc.last_value > value_time

\* if (rc->last_value >= value_time)
insert_rejects(rc, value_time) == rc.last_value >= value_time

\* the entry after realloc, strdup (value) and the two timestamp assignments
insert_append(rc, sample, dupok) ==
    LET vals == IF dupok THEN Append(rc.values, sample) ELSE rc.values
    IN  [rc EXCEPT !.values = vals,
                   !.values_null = FALSE,
                   !.first_value = IF Len(vals) = 1 THEN sample.time ELSE @,
                   !.last_value = sample.time]

\* a variant of the threshold that does not look at the span
insert_threshold_always(rc) == rc.flags # FLAG_QUEUED

\* a variant of the threshold that needs a span above cache_timeout
insert_threshold_strict(rc) ==
    /\ (rc.last_value - rc.first_value) > cache_timeout
    /\ rc.flags # FLAG_QUEUED

\* a variant of the threshold that is reached one second early
insert_threshold_early(rc) ==
    /\ (rc.last_value - rc.first_value) >= cache_timeout - 1
    /\ rc.flags # FLAG_QUEUED

\* if ((rc->last_value - rc->first_value) >= cache_timeout) if (rc->flags != FLAG_QUEUED)
insert_threshold(rc) ==
    /\ (rc.last_value - rc.first_value) >= cache_timeout
    /\ rc.flags # FLAG_QUEUED

\* malloc (sizeof (rrd_cache_t)) fails: return (-1) with cache_lock still held
CacheInsertMallocFail(p) ==
    /\ CanCall(p)
    /\ ~cache_null
    /\ CanFail
    /\ \E in \in Inputs :
          /\ in[1] \notin DOMAIN cache
          /\ Call(p, in[1], in[2], "malloc")
    /\ nfails' = nfails + 1
    /\ cache_lock' = p
    /\ UNCHANGED <<cfgv, cache_flush_last, cache, cache_null, queue_lock, queuev,
                   signaled, do_shutdown, pc, qarg, fl, wloc, updates, ghostv>>

\* rc->last_value >= value_time: unlock, warn, return (-1)
CacheInsertNonMonotonic(p) ==
    /\ CanCall(p)
    /\ ~cache_null
    /\ \E in \in Inputs :
          /\ insert_rejects(Lookup(in[1]), in[2])
          /\ Call(p, in[1], in[2], "nonmonotonic")
    /\ UNCHANGED <<cfgv, cache_flush_last, cache, cache_null, cache_lock, queue_lock,
                   queuev, signaled, do_shutdown, pc, qarg, fl, wloc, updates,
                   nfails, ghostv>>

\* realloc of rc->values fails: avl_remove, unlock, free, return (-1)
CacheInsertReallocFail(p) ==
    /\ CanCall(p)
    /\ ~cache_null
    /\ CanFail
    /\ \E in \in Inputs :
          /\ ~insert_rejects(Lookup(in[1]), in[2])
          /\ Call(p, in[1], in[2], "realloc")
          /\ cache' = avl_remove(cache, in[1])
    /\ nfails' = nfails + 1
    /\ UNCHANGED <<cfgv, cache_flush_last, cache_null, cache_lock, queue_lock, queuev,
                   signaled, do_shutdown, pc, qarg, fl, wloc, updates, ghostv>>

\* strdup (filename) fails for a new entry: unlock, free, return (-1)
CacheInsertKeyFail(p) ==
    /\ CanCall(p)
    /\ ~cache_null
    /\ CanFail
    /\ \E in \in Inputs :
          /\ in[1] \notin DOMAIN cache
          /\ ~insert_rejects(Lookup(in[1]), in[2])
          /\ Call(p, in[1], in[2], "strdup")
    /\ nfails' = nfails + 1
    /\ UNCHANGED <<cfgv, cache_flush_last, cache, cache_null, cache_lock, queue_lock,
                   queuev, signaled, do_shutdown, pc, qarg, fl, wloc, updates,
                   ghostv>>

\* the append; dupok: strdup (value) succeeded
CacheInsertAppend(p) ==
    /\ CanCall(p)
    /\ ~cache_null
    /\ \E in \in Inputs, dupok \in BOOLEAN :
          LET f == in[1]
              t == in[2]
              rc == insert_append(Lookup(f), [file |-> f, time |-> t, id |-> Len(calls) + 1], dupok)
          IN  /\ ~insert_rejects(Lookup(f), t)
              /\ dupok \/ CanFail
              /\ nfails' = IF dupok THEN nfails ELSE nfails + 1
              /\ Call(p, f, t, "pending")
              /\ cache' = avl_insert(cache, f, rc)
              /\ IF insert_threshold(rc)
                 THEN /\ qarg' = [qarg EXCEPT ![p] = [filename |-> f, site |-> "insert", status |-> 0]]
                      /\ Goto(p, "queue_call")
                 ELSE /\ Goto(p, "flush_check")
                      /\ UNCHANGED qarg
    /\ cache_lock' = p
    /\ UNCHANGED <<cfgv, cache_flush_last, cache_null, queue_lock, queuev, signaled,
                   do_shutdown, fl, wloc, updates, ghostv>>

(***************************************************************************)
(* rrd_queue_cache_entry (filename), called from rrd_cache_insert and from *)
(* rrd_cache_flush with cache_lock held.                                   *)
(***************************************************************************)
QueueReturn(t) == IF qarg[t].site = "insert" THEN "flush_check" ELSE "flush"

\* the list after queue_entry n has been linked at the tail
queue_append_head(n) == IF queue_tail = NULL THEN n ELSE queue_head

queue_append_nodes(n, name) ==
    LET linked == IF queue_tail = NULL THEN qnode
                  ELSE [qnode EXCEPT ![queue_tail].next = n]
    IN  [k \in DOMAIN qnode \cup {n} |->
            IF k = n THEN [filename |-> name, next |-> NULL] ELSE linked[k]]

\* malloc or strdup fails: return (-1), the caller leaves rc->flags alone
QueueEntryAllocFail(t) ==
    /\ At(t, "queue_call")
    /\ CanFail \/ FreeNodes = {}
    /\ nfails' = IF CanFail THEN nfails + 1 ELSE nfails
    /\ qarg' = [qarg EXCEPT ![t].status = -1]
    /\ Goto(t, QueueReturn(t))
    /\ UNCHANGED <<cfgv, cache_flush_last, cache, cache_null, cache_lock, queue_lock,
                   queuev, signaled, do_shutdown, now, arg, fl, wloc, calls,
                   updates, ghostv, overlap, late>>

\* pthread_mutex_lock (&queue_lock)
QueueEntryLock(t) ==
    /\ At(t, "queue_call")
    /\ FreeNodes # {}
    /\ queue_lock = NoThread
    /\ queue_lock' = t
    /\ Goto(t, "queue_locked")
    /\ UNCHANGED <<cfgv, cache_flush_last, cache, cache_null, cache_lock, queuev,
                   signaled, do_shutdown, now, arg, qarg, fl, wloc, calls, updates, nfails, ghostv, overlap, late>>

\* link at the tail, signal, unlock, return (0); the caller sets FLAG_QUEUED
QueueEntryAppend(t) ==
    /\ At(t, "queue_locked")
    /\ LET n == Min(FreeNodes)
           f == qarg[t].filename
       IN  /\ queue_head' = queue_append_head(n)
           /\ qnode' = queue_append_nodes(n, f)
           /\ queue_tail' = n
           /\ cache' = [cache EXCEPT ![f].flags = FLAG_QUEUED]
    /\ signaled' = (signaled \/ pc[WORKER] = "w_wait")
    /\ queue_lock' = NoThread
    /\ Goto(t, QueueReturn(t))
    /\ UNCHANGED <<cfgv, cache_flush_last, cache_null, cache_lock, do_shutdown, now,
                   arg, qarg, fl, wloc, calls, updates, nfails, ghostv, overlap, late>>

(***************************************************************************)
(* rrd_cache_flush (timeout), called with cache_lock held.                 *)
(***************************************************************************)
FlushReturn(t) == IF t = SHUTDOWN THEN "sd_unlock" ELSE "unlock"

FlushBegin(tnow, timeout) ==
    [now |-> tnow, iter |-> SortedKeys(DOMAIN cache), keys |-> <<>>, timeout |-> timeout]

\* if (rc->flags == FLAG_QUEUED) continue; else if ((now - rc->first_value) < timeout) continue;
flush_skips(rc, tnow, timeout) ==
    \/ rc.flags = FLAG_QUEUED
    \/ (tnow - rc.first_value) < timeout

\* one round of the iterator loop
CacheFlushIterate(t) ==
    /\ At(t, "flush")
    /\ fl[t].iter # <<>>
    /\ LET key == Head(fl[t].iter)
           rc == cache[key]
           rest == [fl[t] EXCEPT !.iter = Tail(@)]
       IN  IF flush_skips(rc, fl[t].now, fl[t].timeout)
           THEN /\ fl' = [fl EXCEPT ![t] = rest]
                /\ UNCHANGED <<pc, qarg>>
           ELSE IF values_num(rc) > 0
           THEN /\ fl' = [fl EXCEPT ![t] = rest]
                /\ qarg' = [qarg EXCEPT ![t] = [filename |-> key, site |-> "flush", status |-> 0]]
                /\ Goto(t, "queue_call")
           ELSE /\ fl' = [fl EXCEPT ![t] = [rest EXCEPT !.keys = Append(@, key)]]
                /\ UNCHANGED <<pc, qarg>>
    /\ UNCHANGED <<cfgv, cache_flush_last, cache, cache_null, cache_lock, queue_lock,
                   queuev, signaled, do_shutdown, now, arg, wloc, calls, updates, nfails, ghostv, overlap, late>>

\* realloc of keys fails: return without the removals and without cache_flush_last
CacheFlushReallocFail(t) ==
    /\ At(t, "flush")
    /\ fl[t].iter # <<>>
    /\ LET rc == cache[Head(fl[t].iter)]
       IN  /\ ~flush_skips(rc, fl[t].now, fl[t].timeout)
           /\ values_num(rc) = 0
    /\ CanFail
    /\ nfails' = nfails + 1
    /\ fl' = [fl EXCEPT ![t] = NoFlush]
    /\ Goto(t, FlushReturn(t))
    /\ UNCHANGED <<cfgv, cache_flush_last, cache, cache_null, cache_lock, queue_lock,
                   queuev, signaled, do_shutdown, now, arg, qarg, wloc, calls, updates, ghostv, overlap, late>>

\* assert (rc->values == NULL); assert (rc->values_num == 0);
flush_asserts(keys) == \A i \in 1..Len(keys) :
    cache[keys[i]].values_null /\ values_num(cache[keys[i]]) = 0

\* the removals after the loop, then cache_flush_last = now
CacheFlushRemove(t) ==
    /\ At(t, "flush")
    /\ fl[t].iter = <<>>
    /\ LET keys == fl[t].keys
       IN  IF flush_asserts(keys)
           THEN /\ cache' = [k \in DOMAIN cache \ {keys[i] : i \in 1..Len(keys)} |-> cache[k]]
                /\ cache_flush_last' = fl[t].now
                /\ Goto(t, FlushReturn(t))
                /\ UNCHANGED ghostv
           ELSE /\ crashed' = TRUE
                /\ assert_failed' = TRUE
                /\ UNCHANGED <<cache, cache_flush_last, pc>>
    /\ fl' = [fl EXCEPT ![t] = NoFlush]
    /\ UNCHANGED <<cfgv, cache_null, cache_lock, queue_lock, queuev, signaled,
                   do_shutdown, now, arg, qarg, wloc, calls, updates, nfails,
                   overlap, late>>

(***************************************************************************)
(* rrd_cache_insert, after the threshold test.                             *)
(***************************************************************************)
\* a variant of the flush check that starts a pass one second early
insert_flushes_at_equal(tnow) ==
    (cache_timeout > 0) /\ ((tnow - cache_flush_last) >= cache_flush_timeout)

\* if ((cache_timeout > 0) && ((time (NULL) - cache_flush_last) > cache_flush_timeout));
\* time (NULL) is not evaluated when cache_timeout is 0
insert_flushes(tnow) ==
    (cache_timeout > 0) /\ ((tnow - cache_flush_last) > cache_flush_timeout)

CacheInsertFlushCheck(p) ==
    /\ At(p, "flush_check")
    /\ IF cache_timeout > 0 THEN ReadTime ELSE UNCHANGED now
    /\ IF insert_flushes(now')
       THEN /\ fl' = [fl EXCEPT ![p] = FlushBegin(now', cache_flush_timeout)]
            /\ Goto(p, "flush")
       ELSE /\ Goto(p, "unlock")
            /\ UNCHANGED fl
    /\ UNCHANGED <<cfgv, cache_flush_last, cache, cache_null, cache_lock, queue_lock,
                   queuev, signaled, do_shutdown, arg, qarg, wloc, calls, updates, nfails, ghostv, overlap, late>>

\* pthread_mutex_unlock (&cache_lock); return (0);
CacheInsertUnlock(p) ==
    /\ At(p, "unlock")
    /\ cache_lock' = NoThread
    /\ Return(p, "ok")
    /\ qarg' = [qarg EXCEPT ![p] = NoQArg]
    /\ Goto(p, "idle")
    /\ UNCHANGED <<cfgv, cache_flush_last, cache, cache_null, queue_lock, queuev,
                   signaled, do_shutdown, now, fl, wloc, updates, nfails,
                   ghostv, overlap, late>>

(***************************************************************************)
(* rrd_shutdown.                                                           *)
(***************************************************************************)
\* pthread_mutex_lock (&cache_lock); rrd_cache_flush (-1);
ShutdownFlush ==
    /\ At(SHUTDOWN, "sd_idle")
    /\ cache_lock = NoThread
    /\ cache_lock' = SHUTDOWN
    /\ ReadTime
    /\ fl' = [fl EXCEPT ![SHUTDOWN] = FlushBegin(now', SHUTDOWN_TIMEOUT)]
    /\ Goto(SHUTDOWN, "flush")
    /\ UNCHANGED <<cfgv, cache_flush_last, cache, cache_null, queue_lock, queuev,
                   signaled, do_shutdown, arg, qarg, wloc, calls, updates,
                   nfails, ghostv, overlap, late>>

\* pthread_mutex_unlock (&cache_lock);
ShutdownUnlock ==
    /\ At(SHUTDOWN, "sd_unlock")
    /\ cache_lock' = NoThread
    /\ qarg' = [qarg EXCEPT ![SHUTDOWN] = NoQArg]
    /\ Goto(SHUTDOWN, "sd_queue")
    /\ UNCHANGED <<cfgv, cache_flush_last, cache, cache_null, queue_lock, queuev,
                   signaled, do_shutdown, now, arg, fl, wloc, calls, updates, nfails, ghostv, overlap, late>>

\* lock queue_lock; do_shutdown = 1; pthread_cond_signal (&queue_cond); unlock
ShutdownSignal ==
    /\ At(SHUTDOWN, "sd_queue")
    /\ queue_lock = NoThread
    /\ do_shutdown' = 1
    /\ signaled' = (signaled \/ pc[WORKER] = "w_wait")
    /\ Goto(SHUTDOWN, "sd_done")
    /\ UNCHANGED <<cfgv, cache_flush_last, cache, cache_null, cache_lock, queue_lock,
                   queuev, now, arg, qarg, fl, wloc, calls, updates, nfails,
                   ghostv, overlap, late>>

(***************************************************************************)
(* rrd_queue_thread.                                                       *)
(***************************************************************************)
\* while ((queue_head == NULL) && (do_shutdown == 0))
queue_thread_waits == (queue_head = NULL) /\ (do_shutdown = 0)

\* a variant of the exit test that looks at the flag alone
queue_thread_exits_on_flag == do_shutdown # 0

\* if (queue_head == NULL) { unlock; break; }
queue_thread_exits == ~queue_thread_waits /\ (queue_head = NULL)

\* lock queue_lock, the loop test holds: pthread_cond_wait releases the mutex and blocks
QueueThreadWait ==
    /\ At(WORKER, "w_lock")
    /\ queue_lock = NoThread
    /\ queue_thread_waits
    /\ signaled' = FALSE
    /\ Goto(WORKER, "w_wait")
    /\ UNCHANGED <<cfgv, cache_flush_last, cache, cache_null, cache_lock, queue_lock,
                   queuev, do_shutdown, now, arg, qarg, fl, wloc, calls, updates,
                   nfails, ghostv, overlap, late>>

\* pthread_cond_wait returns after a signal: re-acquire the mutex, test again
QueueThreadWake ==
    /\ At(WORKER, "w_wait")
    /\ signaled
    /\ signaled' = FALSE
    /\ Goto(WORKER, "w_lock")
    /\ UNCHANGED <<cfgv, cache_flush_last, cache, cache_null, cache_lock, queue_lock,
                   queuev, do_shutdown, now, arg, qarg, fl, wloc, calls, updates,
                   nfails, ghostv, overlap, late>>

\* pthread_cond_wait returns without a signal (spurious wakeup)
QueueThreadSpuriousWake ==
    /\ At(WORKER, "w_wait")
    /\ ~signaled
    /\ Goto(WORKER, "w_lock")
    /\ UNCHANGED <<cfgv, cache_flush_last, cache, cache_null, cache_lock, queue_lock,
                   queuev, signaled, do_shutdown, now, arg, qarg, fl, wloc, calls,
                   updates, nfails, ghostv, overlap, late>>

\* the shutdown phase: unlock and leave the loop
QueueThreadBreak ==
    /\ At(WORKER, "w_lock")
    /\ queue_lock = NoThread
    /\ queue_thread_exits
    /\ Goto(WORKER, "w_destroy")
    /\ UNCHANGED <<cfgv, cache_flush_last, cache, cache_null, cache_lock, queue_lock,
                   queuev, signaled, do_shutdown, now, arg, qarg, fl, wloc, calls,
                   updates, nfails, ghostv, overlap, late>>

\* a variant of the dequeue that drops the rest of the list
dequeue_head_drops_rest == NULL

\* queue_head after the first entry has been unlinked
dequeue_head == IF queue_head = queue_tail THEN NULL ELSE qnode[queue_head].next

\* a variant of the dequeue that leaves queue_tail on the unlinked entry
dequeue_tail_stays == queue_tail

\* queue_tail after the first entry has been unlinked
dequeue_tail == IF queue_head = queue_tail THEN NULL ELSE queue_tail

\* a variant of the dequeue that goes on to the cache with queue_lock held
QueueThreadDequeueKeepsLock ==
    /\ At(WORKER, "w_lock")
    /\ queue_lock = NoThread
    /\ ~queue_thread_waits
    /\ ~queue_thread_exits
    /\ wloc' = [wloc EXCEPT !.queue_entry = queue_head]
    /\ queue_head' = dequeue_head
    /\ queue_tail' = dequeue_tail
    /\ queue_lock' = WORKER
    /\ Goto(WORKER, "w_drain")
    /\ UNCHANGED <<cfgv, cache_flush_last, cache, cache_null, cache_lock, qnode,
                   signaled, do_shutdown, now, arg, qarg, fl, calls, updates,
                   nfails, ghostv, overlap, late>>

\* dequeue the first entry and unlock the queue
QueueThreadDequeue ==
    /\ At(WORKER, "w_lock")
    /\ queue_lock = NoThread
    /\ ~queue_thread_waits
    /\ ~queue_thread_exits
    /\ wloc' = [wloc EXCEPT !.queue_entry = queue_head]
    /\ queue_head' = dequeue_head
    /\ queue_tail' = dequeue_tail
    /\ queue_lock' = NoThread
    /\ Goto(WORKER, "w_drain")
    /\ UNCHANGED <<cfgv, cache_flush_last, cache, cache_null, cache_lock, qnode,
                   signaled, do_shutdown, now, arg, qarg, fl, calls, updates,
                   nfails, ghostv, overlap, late>>

\* a variant of the drain that leaves the values in the entry
drain_entry_keeps_values(rc) == [rc EXCEPT !.flags = FLAG_NONE]

\* cache_entry->values = NULL; values_num = 0; flags = FLAG_NONE;
drain_entry(rc) == [rc EXCEPT !.values = <<>>, !.values_null = TRUE, !.flags = FLAG_NONE]

\* a variant of the drain that goes on to rrd_write_to_file with cache_lock held
QueueThreadDrainKeepsLock ==
    /\ At(WORKER, "w_drain")
    /\ cache_lock = NoThread
    /\ LET f == qnode[wloc.queue_entry].filename
       IN  /\ f \in DOMAIN cache
           /\ wloc' = [wloc EXCEPT !.values = cache[f].values]
           /\ cache' = [cache EXCEPT ![f] = drain_entry(@)]
    /\ cache_lock' = WORKER
    /\ Goto(WORKER, "w_write")
    /\ UNCHANGED <<cfgv, cache_flush_last, cache_null, queue_lock, queuev,
                   signaled, do_shutdown, now, arg, qarg, fl, calls, updates,
                   nfails, ghostv, overlap, late>>

\* lock cache_lock, avl_get finds the entry, take its values, unlock
QueueThreadDrain ==
    /\ At(WORKER, "w_drain")
    /\ cache_lock = NoThread
    /\ LET f == qnode[wloc.queue_entry].filename
       IN  /\ f \in DOMAIN cache
           /\ wloc' = [wloc EXCEPT !.values = cache[f].values]
           /\ cache' = [cache EXCEPT ![f] = drain_entry(@)]
    /\ Goto(WORKER, "w_write")
    /\ UNCHANGED <<cfgv, cache_flush_last, cache_null, cache_lock, queue_lock, queuev,
                   signaled, do_shutdown, now, arg, qarg, fl, calls, updates,
                   nfails, ghostv, overlap, late>>

\* avl_get finds nothing and leaves cache_entry as it was: the pointer of the
\* previous round (an entry still live, or freed memory handed out again for
\* another entry) or an uninitialised one; the thread works on that entry or dies
QueueThreadDrainMissing ==
    /\ At(WORKER, "w_drain")
    /\ cache_lock = NoThread
    /\ qnode[wloc.queue_entry].filename \notin DOMAIN cache
    /\ \/ /\ crashed' = TRUE
          /\ UNCHANGED <<cache, wloc, pc>>
       \/ \E g \in DOMAIN cache :
             /\ wloc' = [wloc EXCEPT !.values = cache[g].values]
             /\ cache' = [cache EXCEPT ![g] = drain_entry(@)]
             /\ Goto(WORKER, "w_write")
             /\ UNCHANGED crashed
    /\ UNCHANGED <<cfgv, cache_flush_last, cache_null, cache_lock, queue_lock, queuev,
                   signaled, do_shutdown, now, arg, qarg, fl, calls, updates,
                   nfails, assert_failed, overlap, late>>

\* rrd_write_to_file: if (values_num < 1) return (0);
write_calls_update(values) == Len(values) >= 1

\* a variant of the round's end that gives up after a failed write
queue_thread_after_write_stops(status) == IF status = "ok" THEN "w_lock" ELSE "w_done"

\* the return value of rrd_write_to_file is not looked at: free, next round
queue_thread_after_write(status) == "w_lock"

\* rrd_write_to_file and the frees that end the round; status: "ok", or
\* "argv": malloc of argv failed, rrd_update is not called, or "update":
\* rrd_update was called and failed
QueueThreadWrite ==
    /\ At(WORKER, "w_write")
    /\ \E status \in {"ok", "argv", "update"} :
          /\ status = "ok" \/ (CanFail /\ write_calls_update(wloc.values))
          /\ nfails' = IF status = "ok" THEN nfails ELSE nfails + 1
          /\ updates' = IF write_calls_update(wloc.values) /\ status # "argv"
                        THEN Append(updates, [filename |-> qnode[wloc.queue_entry].filename,
                                              values |-> wloc.values, ok |-> (status = "ok")])
                        ELSE updates
          /\ Goto(WORKER, queue_thread_after_write(status))
    /\ qnode' = [k \in DOMAIN qnode \ {wloc.queue_entry} |-> qnode[k]]
    /\ wloc' = NoWLoc
    /\ UNCHANGED <<cfgv, cache_flush_last, cache, cache_null, cache_lock, queue_lock,
                   queue_head, queue_tail, signaled, do_shutdown, now, arg, qarg, fl,
                   calls, ghostv, overlap, late>>

\* after the loop: lock cache_lock; avl_destroy (cache); cache = NULL; unlock; exit
QueueThreadDestroy ==
    /\ At(WORKER, "w_destroy")
    /\ cache_lock = NoThread
    /\ cache_null' = TRUE
    /\ Goto(WORKER, "w_done")
    /\ UNCHANGED <<cfgv, cache_flush_last, cache, cache_lock, queue_lock, queuev,
                   signaled, do_shutdown, now, arg, qarg, fl, wloc, calls, updates, nfails, ghostv, overlap, late>>

Next ==
    \/ \E p \in Producers : CacheInsertMallocFail(p)
    \/ \E p \in Producers : CacheInsertNonMonotonic(p)
    \/ \E p \in Producers : CacheInsertReallocFail(p)
    \/ \E p \in Producers : CacheInsertKeyFail(p)
    \/ \E p \in Producers : CacheInsertAppend(p)
    \/ \E p \in Producers : CacheInsertFlushCheck(p)
    \/ \E p \in Producers : CacheInsertUnlock(p)
    \/ \E t \in Callers : QueueEntryAllocFail(t)
    \/ \E t \in Callers : QueueEntryLock(t)
    \/ \E t \in Callers : QueueEntryAppend(t)
    \/ \E t \in Callers : CacheFlushIterate(t)
    \/ \E t \in Callers : CacheFlushReallocFail(t)
    \/ \E t \in Callers : CacheFlushRemove(t)
    \/ ShutdownFlush
    \/ ShutdownUnlock
    \/ ShutdownSignal
    \/ QueueThreadWait
    \/ QueueThreadWake
    \/ QueueThreadSpuriousWake
    \/ QueueThreadBreak
    \/ QueueThreadDequeue
    \/ QueueThreadDrain
    \/ QueueThreadDrainMissing
    \/ QueueThreadWrite
    \/ QueueThreadDestroy

Spec == Init /\ [][Next]_vars

\* the same program fed one path's values every Period seconds
\* the steps of a run without failures
NextPeriodic ==
    \/ \E p \in Producers : CacheInsertNonMonotonic(p)
    \/ \E p \in Producers : CacheInsertAppend(p)
    \/ \E p \in Producers : CacheInsertFlushCheck(p)
    \/ \E p \in Producers : CacheInsertUnlock(p)
    \/ \E t \in Callers : QueueEntryLock(t)
    \/ \E t \in Callers : QueueEntryAppend(t)
    \/ \E t \in Callers : CacheFlushIterate(t)
    \/ \E t \in Callers : CacheFlushRemove(t)
    \/ ShutdownFlush
    \/ ShutdownUnlock
    \/ ShutdownSignal
    \/ QueueThreadWait
    \/ QueueThreadWake
    \/ QueueThreadSpuriousWake
    \/ QueueThreadBreak
    \/ QueueThreadDequeue
    \/ QueueThreadDrain
    \/ QueueThreadWrite
    \/ QueueThreadDestroy

SpecPeriodic == InitPeriodic /\ [][NextPeriodic]_vars

(***************************************************************************)
(* The file name of a value list: rrd_config ("DataDir") and               *)
(* value_list_to_filename as rrd_write calls it. Strings are sequences of  *)
(* characters.                                                             *)
(***************************************************************************)
Strings(alphabet, n) == UNION {[1..k -> alphabet] : k \in 0..n}

IdentChars == {"a", "-"}
DirChars == {"d", "/"}

Idents == [host : Strings(IdentChars, MaxStr), plugin : Strings(IdentChars, MaxStr),
           plugin_instance : Strings(IdentChars, MaxStr), type : Strings(IdentChars, MaxStr),
           type_instance : Strings(IdentChars, MaxStr)]

\* while ((len > 0) && (datadir[len - 1] == '/')) len--;
RECURSIVE strip_slashes(_)
strip_slashes(str) ==
    IF Len(str) > 0 /\ str[Len(str)] = "/" THEN strip_slashes(SubSeq(str, 1, Len(str) - 1))
    ELSE str

\* datadir = strdup (value), without its trailing slashes; NULL if nothing is left
config_datadir(value, dupok) ==
    IF dupok /\ Len(strip_slashes(value)) > 0
    THEN [set |-> TRUE, s |-> strip_slashes(value)]
    ELSE NoDataDir

\* snprintf (buffer + offset, size, ...) of text: at most size - 1 characters are
\* written, the status is the length of the whole text
snprintf(size, text) ==
    [written |-> SubSeq(text, 1, IF Len(text) < size - 1 THEN Len(text) ELSE size - 1),
     status |-> Len(text)]

\* a variant of the test that lets a text through that fills the room to the last byte
snprintf_fails_above(status, room) == (status < 1) \/ (status > room)

\* if ((status < 1) || (status >= buffer_len - offset)) return (-1);
snprintf_fails(status, room) == (status < 1) \/ (status >= room)

\* one snprintf with its test and offset += status; nothing once -1 was returned
filename_piece(st, buffer_len, text) ==
    IF st.ret # 0 THEN st
    ELSE LET r == snprintf(buffer_len - st.offset, text)
             buf == SubSeq(st.buffer, 1, st.offset) \o r.written
         IN  IF snprintf_fails(r.status, buffer_len - st.offset)
             THEN [buffer |-> buf, offset |-> st.offset, ret |-> -1]
             ELSE [buffer |-> buf, offset |-> st.offset + r.status, ret |-> 0]

value_list_to_filename(buffer_len, dd, v) ==
    LET s0 == [buffer |-> <<>>, offset |-> 0, ret |-> 0]
        s1 == IF dd.set THEN filename_piece(s0, buffer_len, dd.s \o <<"/">>) ELSE s0
        s2 == filename_piece(s1, buffer_len, v.host \o <<"/">>)
        s3 == filename_piece(s2, buffer_len,
                  IF Len(v.plugin_instance) > 0
                  THEN v.plugin \o <<"-">> \o v.plugin_instance \o <<"/">>
                  ELSE v.plugin \o <<"/">>)
    IN  filename_piece(s3, buffer_len,
            IF Len(v.type_instance) > 0
            THEN v.type \o <<"-">> \o v.type_instance \o <<".", "r", "r", "d">>
            ELSE v.type \o <<".", "r", "r", "d">>)

cachev == <<cache_timeout, cache_flush_timeout, period, cache_flush_last, cache, cache_null,
            cache_lock, queue_lock, queuev, signaled, do_shutdown, now, pc, arg, qarg, fl,
            wloc, calls, updates, nfails, ghostv, overlap, late>>

\* rrd_config ("DataDir", value), before any value is written
ConfigDataDir ==
    /\ filename = NoFilename
    /\ \E value \in Strings(DirChars, MaxDir), dupok \in BOOLEAN :
          datadir' = config_datadir(value, dupok)
    /\ UNCHANGED <<cachev, rrav, vl, filename>>

\* rrd_write: value_list_to_filename (filename, sizeof (filename), ds, vl)
WriteFilename ==
    /\ filename = NoFilename
    /\ filename' = value_list_to_filename(FilenameLen, datadir, vl)
    /\ UNCHANGED <<cachev, rrav, datadir, vl>>

InitFilename ==
    /\ InitFor({<<0, 0>>}, {0})
    /\ datadir = NoDataDir
    /\ vl \in Idents
    /\ filename = NoFilename
    /\ InitNoRra

NextFilename == ConfigDataDir \/ WriteFilename

SpecFilename == InitFilename /\ [][NextFilename]_vars

(***************************************************************************)
(* rra_get: the RRA definitions of a new file, computed from stepsize,     *)
(* rrarows and the timespans and kept in the statics rra_def and rra_num.  *)
(* A definition "RRA:<type>:<xff>:<cdp_len>:<cdp_num>" is the record of    *)
(* its type and its two numbers. The quotients of doubles are quotients of *)
(* positive ints, which a double holds exactly.                            *)
(***************************************************************************)
rra_types == <<"AVERAGE", "MIN", "MAX">>

rra_timespans == <<3600, 86400, 604800, 2678400, 31622400>>

\* RRATimespan keeps every value atoi does not turn into 0
SpanValues == {-1} \cup (1..MaxSpan)

\* the configured timespans or the built-in defaults
rra_rts == IF Len(rra_timespans_custom) # 0 THEN rra_timespans_custom ELSE rra_timespans

\* a variant of the test that also skips a span of exactly rrarows steps
rra_skips_equal(span) == int_div(span, stepsize) <= rrarows

\* if ((span / stepsize) < rrarows) continue;
rra_skips(span) == int_div(span, stepsize) < rrarows

\* a variant of the consolidation length that rounds up
rra_cdp_len_rounds_up(cdp_len, span) ==
    IF cdp_len = 0 THEN 1 ELSE CeilDiv(span, rrarows * stepsize)

\* if (cdp_len == 0) cdp_len = 1; else cdp_len = floor (span / (rrarows * stepsize));
rra_cdp_len(cdp_len, span) == IF cdp_len = 0 THEN 1 ELSE span \div (rrarows * stepsize)

\* cdp_num = ceil (span / (cdp_len * stepsize));
rra_cdp_num(cdp_len, span) == CeilDiv(span, cdp_len * stepsize)

\* for (j = 0; j < rra_types_num; j++): one definition per type while rra_num < rra_max
RECURSIVE rra_types_loop(_, _, _, _, _)
rra_types_loop(defs, j, rra_max, cdp_len, cdp_num) ==
    IF j > Len(rra_types) \/ Len(defs) >= rra_max THEN defs
    ELSE rra_types_loop(Append(defs, [type |-> rra_types[j], cdp_len |-> cdp_len,
                                      cdp_num |-> cdp_num]),
                        j + 1, rra_max, cdp_len, cdp_num)

\* for (i = 0; i < rts_num; i++)
RECURSIVE rra_loop(_, _, _, _, _)
rra_loop(rts, i, cdp_len, defs, rra_max) ==
    IF i > Len(rts) THEN defs
    ELSE IF rra_skips(rts[i]) THEN rra_loop(rts, i + 1, cdp_len, defs, rra_max)
    ELSE LET len == rra_cdp_len(cdp_len, rts[i])
             num == rra_cdp_num(len, rts[i])
         IN  rra_loop(rts, i + 1, len, rra_types_loop(defs, 1, rra_max, len, num), rra_max)

\* rra_get (&ret); mallocok: malloc of rra_def succeeded
RraGet ==
    /\ IF (rra_num # 0) /\ ~rra_def.null
       THEN /\ rra_ret' = [called |-> TRUE, status |-> rra_num, ret |-> rra_def.defs]
            /\ UNCHANGED <<rra_def, rra_num>>
       ELSE \E mallocok \in BOOLEAN :
               IF ~mallocok
               THEN /\ rra_def' = NoRraDef
                    /\ rra_ret' = [called |-> TRUE, status |-> -1, ret |-> <<>>]
                    /\ UNCHANGED rra_num
               ELSE IF (stepsize <= 0) \/ (rrarows <= 0)
               THEN /\ rra_def' = [null |-> FALSE, defs |-> <<>>]
                    /\ rra_ret' = [called |-> TRUE, status |-> -1, ret |-> <<>>]
                    /\ UNCHANGED rra_num
               ELSE LET defs == rra_loop(rra_rts, 1, 0, <<>>, Len(rra_rts) * Len(rra_types))
                    IN  /\ rra_def' = [null |-> FALSE, defs |-> defs]
                        /\ rra_num' = Len(defs)
                        /\ rra_ret' = [called |-> TRUE, status |-> Len(defs), ret |-> defs]
    /\ UNCHANGED <<cachev, filev, stepsize, rrarows, rra_timespans_custom>>

\* StepSize unset with an interval of 0, or set; RRARows and RRATimespan as rrd_config
\* accepts them
InitRra ==
    /\ InitFor({<<0, 0>>}, {0})
    /\ InitNoFilename
    /\ stepsize \in 0..MaxStep
    /\ rrarows \in 1..MaxRows
    /\ rra_timespans_custom \in Strings(SpanValues, MaxSpans)
    /\ rra_def = NoRraDef
    /\ rra_num = 0
    /\ rra_ret = NoRraRet

NextRra == RraGet

SpecRra == InitRra /\ [][NextRra]_vars

(***************************************************************************)
(* rrd_config ("CacheTimeout"), rrd_config ("CacheFlush") and the part of  *)
(* rrd_init that normalises the two, in the run where avl_create and       *)
(* pthread_create succeed. Before rrd_init there is no tree and no thread. *)
(***************************************************************************)
\* what atoi may give: small values, and values around INT_MAX / 10
CfgValues == (-1..MaxCfgValue) \cup
             {INT_MAX \div FLUSH_FACTOR, (INT_MAX \div FLUSH_FACTOR) + 1, INT_MAX}

Configuring == [t \in Threads |-> "config"]

settingsv == <<period, cache_flush_last, cache, cache_lock, queue_lock, queuev, signaled,
               do_shutdown, now, arg, qarg, fl, wloc, calls, updates, nfails, assert_failed,
               overlap, late, filev, rrav>>

\* int tmp = atoi (value); if (tmp < 0) return (1); cache_timeout = tmp;
RrdConfigCacheTimeout ==
    /\ pc = Configuring
    /\ ~crashed
    /\ \E tmp \in CfgValues :
          cache_timeout' = IF tmp < 0 THEN cache_timeout ELSE tmp
    /\ UNCHANGED <<settingsv, cache_flush_timeout, cache_null, pc, crashed>>

\* int tmp = atoi (value); if (tmp < 0) return (1); cache_flush_timeout = tmp;
RrdConfigCacheFlush ==
    /\ pc = Configuring
    /\ ~crashed
    /\ \E tmp \in CfgValues :
          cache_flush_timeout' = IF tmp < 0 THEN cache_flush_timeout ELSE tmp
    /\ UNCHANGED <<settingsv, cache_timeout, cache_null, pc, crashed>>

\* 10 * cache_timeout is evaluated and does not fit an int
rrd_init_overflows ==
    /\ cache_timeout >= MIN_CACHE_TIMEOUT
    /\ cache_flush_timeout < cache_timeout
    /\ int_overflows(FLUSH_FACTOR * cache_timeout)

\* rrd_init: the tree, the two timeouts, the queue thread. A signed overflow is
\* undefined: the build wraps the product, or traps
RrdInit ==
    /\ pc = Configuring
    /\ ~crashed
    /\ \/ /\ cache_timeout' = rrd_init_cache_timeout(cache_timeout)
          /\ cache_flush_timeout' = rrd_init_cache_flush_timeout(cache_timeout, cache_flush_timeout)
          /\ cache_null' = FALSE
          /\ pc' = Started
          /\ UNCHANGED crashed
       \/ /\ rrd_init_overflows
          /\ crashed' = TRUE
          /\ UNCHANGED <<cache_timeout, cache_flush_timeout, cache_null, pc>>
    /\ UNCHANGED settingsv

InitConfig ==
    /\ cache_timeout = 0
    /\ cache_flush_timeout = 0
    /\ period = 0
    /\ cache_null = TRUE
    /\ pc = Configuring
    /\ InitStatics
    /\ InitNoFilename
    /\ InitNoRra

NextConfig == RrdConfigCacheTimeout \/ RrdConfigCacheFlush \/ RrdInit

SpecConfig == InitConfig /\ [][NextConfig]_vars

(***************************************************************************)
(* Observations used by the properties.                                    *)
(***************************************************************************)
RECURSIVE Flatten(_)
Flatten(batches) ==
    IF batches = <<>> THEN <<>> ELSE Head(batches).values \o Flatten(Tail(batches))

\* every value handed to rrd_update so far, in the order handed over
Written == Flatten(updates)

\* the updates of one file name, in order
UpdatesOf(f) == SelectSeq(updates, LAMBDA u : u.filename = f)

StrictlyIncreasing(seq) == \A i \in 1..Len(seq) : \A j \in 1..Len(seq) : i < j => seq[i] < seq[j]

Ids(seq) == [i \in 1..Len(seq) |-> seq[i].id]

TimesOf(seq) == [i \in 1..Len(seq) |-> seq[i].time]

Range(seq) == {seq[i] : i \in 1..Len(seq)}

\* the places where the value of call id was handed to rrd_update
Occurrences(id) ==
    {o \in (1..Len(updates)) \X (1..CallLimit) :
        o[2] <= Len(updates[o[1]].values) /\ updates[o[1]].values[o[2]].id = id}

RECURSIVE QueueFrom(_)
QueueFrom(n) == IF n = NULL THEN <<>> ELSE <<qnode[n].filename>> \o QueueFrom(qnode[n].next)

\* the file names in the queue, head first
QueueSeq == QueueFrom(queue_head)

\* the file name the queue thread has dequeued and not yet drained
Draining == IF pc[WORKER] = "w_drain" THEN {qnode[wloc.queue_entry].filename} ELSE {}

\* the values in the buffers of the entries and in the hands of the queue thread
Buffered == UNION {Range(cache[f].values) : f \in DOMAIN cache} \cup Range(wloc.values)

\* the values of one path: the ones handed to rrd_update, in that order, then
\* the ones the queue thread holds, then the ones buffered in the path's entry
SamplesInOrder(f) ==
    SelectSeq(Written \o wloc.values \o (IF f \in DOMAIN cache THEN cache[f].values ELSE <<>>),
              LAMBDA v : v.file = f)

\* the places where a thread goes on to pthread_mutex_lock (&cache_lock)
AcquiresCacheLock(t) == pc[t] \in {"idle", "sd_idle", "w_drain", "w_destroy"}

WorkerLeavesLoop == pc[WORKER] # "w_destroy" /\ pc'[WORKER] = "w_destroy"

WorkerDequeues == pc[WORKER] # "w_drain" /\ pc'[WORKER] = "w_drain"

(***************************************************************************)
(* C1. No loss: once the queue thread has terminated after a shutdown that *)
(* followed all submits, every value whose rrd_cache_insert returned 0 has *)
(* been handed to rrd_update exactly once, under its own file name. Stated *)
(* for the runs without any allocation or rrd_update failure.              *)
(***************************************************************************)
C1_NoLoss ==
    (pc[WORKER] = "w_done" /\ ~overlap /\ nfails = 0) =>
        \A id \in 1..Len(calls) :
            calls[id] = "ok" =>
                /\ Cardinality(Occurrences(id)) = 1
                /\ \A o \in Occurrences(id) :
                      updates[o[1]].filename = updates[o[1]].values[o[2]].file

(***************************************************************************)
(* C2. Monotonicity: for every file, the timestamps handed to rrd_update   *)
(* under that file name, over all calls in order, are strictly increasing. *)
(* Stated for the runs without any allocation or rrd_update failure.       *)
(***************************************************************************)
C2_Monotonic ==
    nfails = 0 =>
        \A f \in Paths : StrictlyIncreasing(TimesOf(Flatten(UpdatesOf(f))))

(***************************************************************************)
(* C3. Per-path order: the values of one path, taken in the order they     *)
(* were handed to rrd_update, then the ones the queue thread holds, then   *)
(* the ones still buffered in the path's entry, are in the order in which  *)
(* their calls passed the check under cache_lock (ids number the calls in  *)
(* that order), and no value occurs twice.                                 *)
(***************************************************************************)
C3_OrderPreserved == \A f \in Paths : StrictlyIncreasing(Ids(SamplesInOrder(f)))

\* two batches of one file were written, one of them with a value that joined
\* the buffer after an earlier value of the batch
C3_Witness ==
    \E i \in 1..Len(updates) : \E j \in 1..Len(updates) :
        /\ i # j
        /\ updates[i].filename = updates[j].filename
        /\ Len(updates[i].values) >= 2

(***************************************************************************)
(* C4. Lock order: a thread that is about to acquire cache_lock (a         *)
(* producer or the shutdown caller entering its function, the queue thread *)
(* before the drain and before avl_destroy) does not hold queue_lock, and  *)
(* a caller that holds queue_lock took cache_lock before it.               *)
(***************************************************************************)
C4_LockOrder ==
    \A t \in Threads :
        /\ AcquiresCacheLock(t) => queue_lock # t
        /\ (queue_lock = t /\ t \in Callers) => (cache_lock = t /\ pc[t] = "queue_locked")

\* a thread holds both locks
C4_Witness == \E t \in Threads : cache_lock = t /\ queue_lock = t

(***************************************************************************)
(* C5. Shutdown rule: the queue thread leaves its loop only in a step      *)
(* taken with the queue empty and do_shutdown set, and it dequeues only    *)
(* from a queue that is not empty, whatever woke it up.                    *)
(***************************************************************************)
C5_ShutdownRule ==
    [][ /\ WorkerLeavesLoop => (queue_head = NULL /\ do_shutdown = 1 /\ queue_head' = NULL)
        /\ WorkerDequeues => (queue_head # NULL /\ wloc'.queue_entry = queue_head)
      ]_vars

\* the flag is set while a path is still queued and the queue thread is about to test
C5_Witness == do_shutdown = 1 /\ queue_head # NULL /\ pc[WORKER] = "w_lock"

\* a step of rrd_shutdown (its call included), of a write call in progress, or
\* of the queue thread other than going to sleep and waking up unsignalled
ShutdownProgress ==
    \/ \E p \in Producers : CacheInsertFlushCheck(p) \/ CacheInsertUnlock(p)
    \/ \E t \in Callers : QueueEntryAllocFail(t) \/ QueueEntryLock(t) \/ QueueEntryAppend(t)
    \/ \E t \in Callers : CacheFlushIterate(t) \/ CacheFlushReallocFail(t) \/ CacheFlushRemove(t)
    \/ ShutdownFlush \/ ShutdownUnlock \/ ShutdownSignal
    \/ QueueThreadWake \/ QueueThreadBreak \/ QueueThreadDequeue \/ QueueThreadDrain
    \/ QueueThreadDrainMissing \/ QueueThreadWrite \/ QueueThreadDestroy

(***************************************************************************)
(* C6. Shutdown termination: as long as the queue thread has not destroyed *)
(* the cache and terminated, a step towards that is possible without any   *)
(* new write call: a step of rrd_shutdown, of a write call in progress or  *)
(* of the queue thread. A state without such a step is one from which no   *)
(* scheduling, however fair, lets the queue thread terminate.              *)
(***************************************************************************)
C6_Terminates == (pc[WORKER] = "w_done" /\ cache_null) \/ ENABLED ShutdownProgress

\* a call that starts with a value_time not above the entry's last_value (0 for
\* a path without entry) returns an error and changes neither tree nor queue
RejectedCallIsNoop ==
    \A p \in Producers :
        (/\ arg'[p].id = Len(calls) + 1
         /\ arg'[p].time <= Lookup(arg'[p].filename).last_value)
        => /\ calls'[Len(calls')] \in {"nonmonotonic", "malloc"}
           /\ UNCHANGED <<cache, queue_head, queue_tail, qnode>>

\* the value of a rejected call is in no buffer and in no rrd_update call
RejectedNeverWritten ==
    \A id \in 1..Len(calls) :
        calls[id] = "nonmonotonic" =>
            /\ Occurrences(id) = {}
            /\ \A v \in Buffered : v.id # id

(***************************************************************************)
(* C7. A rejected value has no effect: a call whose value_time is not      *)
(* above the last_value of the path's entry (0 for a path without entry)   *)
(* returns an error and leaves the tree (keys, buffers, first_value,       *)
(* last_value, flags) and the queue as they were, adds no entry, and its   *)
(* value is never in a buffer or in an rrd_update call.                    *)
(***************************************************************************)
C7_RejectIsNoop == [][RejectedCallIsNoop]_vars /\ []RejectedNeverWritten

\* a call was just rejected for a path whose entry holds buffered values
C7_Witness ==
    \E p \in Producers :
        /\ Len(calls) > 0
        /\ arg[p].id = Len(calls)
        /\ calls[Len(calls)] = "nonmonotonic"
        /\ arg[p].filename \in DOMAIN cache
        /\ cache[arg[p].filename].values # <<>>

(***************************************************************************)
(* C8. Shutdown sentinel: when rrd_cache_flush (-1) has returned to        *)
(* rrd_shutdown, every entry with values in its buffer is flagged QUEUED   *)
(* and its file name is in the queue or dequeued and about to be drained.  *)
(* Stated for the runs without any allocation or rrd_update failure.       *)
(***************************************************************************)
C8_SentinelQueuesAll ==
    (pc[SHUTDOWN] = "sd_unlock" /\ nfails = 0) =>
        \A f \in DOMAIN cache :
            values_num(cache[f]) > 0 =>
                /\ cache[f].flags = FLAG_QUEUED
                /\ f \in Range(QueueSeq) \cup Draining

\* the entry of the path of p's call is flagged QUEUED
ReturnsQueued(p) ==
    /\ arg[p].filename \in DOMAIN cache
    /\ cache[arg[p].filename].flags = FLAG_QUEUED

UpdateBound == CeilDiv(now, cache_timeout) + 1

C11_WriteOutsideLocks ==
    pc[WORKER] = "w_write" =>
        /\ cache_lock \in Callers \cup {NoThread}
        /\ queue_lock \in Callers \cup {NoThread}

\* while the queue thread writes the values of a file, a write call for that very
\* file owns cache_lock and has appended a value
C11_Witness ==
    /\ pc[WORKER] = "w_write"
    /\ wloc.values # <<>>
    /\ \E p \in Producers :
          /\ cache_lock = p
          /\ pc[p] \in {"queue_call", "flush_check", "unlock"}
          /\ arg[p].filename = qnode[wloc.queue_entry].filename
          /\ cache[arg[p].filename].values # <<>>

\* the step in which rrd_update is called and fails
UpdateFails ==
    /\ pc[WORKER] = "w_write"
    /\ Len(updates') = Len(updates) + 1
    /\ ~updates'[Len(updates')].ok

\* after the failure the queue thread is back at the head of its loop, the
\* batch is gone from its hands, tree and queue are as they were, and the
\* entry of the file is not flagged unless the file is in the queue again
UpdateFailureIsSkipped ==
    UpdateFails =>
        /\ pc'[WORKER] = "w_lock"
        /\ ~crashed'
        /\ wloc'.values = <<>>
        /\ UNCHANGED <<cache, queue_head, queue_tail>>
        /\ LET f == updates'[Len(updates')].filename
           IN  f \in DOMAIN cache =>
                  (cache[f].flags = FLAG_NONE \/ f \in Range(QueueSeq))

\* the values of a failed rrd_update call are in no other call and in no buffer
FailedBatchIsGone ==
    \A i \in 1..Len(updates) :
        ~updates[i].ok =>
            \A v \in Range(updates[i].values) :
                /\ Cardinality(Occurrences(v.id)) = 1
                /\ v \notin Buffered

(***************************************************************************)
(* C12. Update failure: when rrd_update fails for a batch the queue thread *)
(* goes on with its loop, the batch is dropped and never handed to         *)
(* rrd_update again, and the entry was reset by the drain (flags NONE      *)
(* unless a later call queued the file again), so later values of the file *)
(* are buffered and written as usual.                                      *)
(***************************************************************************)
C12_UpdateFailure == [][UpdateFailureIsSkipped]_vars /\ []FailedBatchIsGone

\* a batch of a file failed and a value submitted later for the same file was
\* written by a later, successful rrd_update call
C12_Witness ==
    \E i \in 1..Len(updates) : \E j \in 1..Len(updates) :
        /\ i < j
        /\ updates[i].filename = updates[j].filename
        /\ ~updates[i].ok
        /\ updates[j].ok
        /\ \A v \in Range(updates[i].values) : \A w \in Range(updates[j].values) : v.id < w.id

\* the step of a write call in which an allocation of rrd_cache_insert fails:
\* of the entry, of the values array, of the copy of the value or of the key
AllocFailsInInsert ==
    /\ Len(calls') = Len(calls) + 1
    /\ nfails' = nfails + 1

(***************************************************************************)
(* C13. Allocation failure in a write call: the call returns an error and  *)
(* leaves the tree as it was: the value is in no buffer, no new entry      *)
(* stays behind, and the buffers, first_value, last_value and flags of     *)
(* every entry that existed are unchanged.                                 *)
(***************************************************************************)
C13_AllocFailureRollsBack ==
    [][AllocFailsInInsert =>
          /\ calls'[Len(calls')] \in {"malloc", "realloc", "strdup"}
          /\ cache' = cache]_vars

(***************************************************************************)
(* C14. Shutdown discards nothing: when the queue thread has destroyed the *)
(* tree, no entry of the tree held values in its buffer. Stated for the    *)
(* runs without any allocation or rrd_update failure.                      *)
(***************************************************************************)
C14_DestroyFindsNoValues ==
    (cache_null /\ nfails = 0) =>
        \A f \in DOMAIN cache : values_num(cache[f]) = 0

\* [data_dir "/"] host "/" plugin ["-" plugin_instance] "/" type ["-" type_instance] ".rrd"
SynthesizedPath(dd, v) ==
    (IF dd.set THEN dd.s \o <<"/">> ELSE <<>>)
    \o v.host \o <<"/">>
    \o v.plugin \o (IF v.plugin_instance # <<>> THEN <<"-">> \o v.plugin_instance ELSE <<>>)
    \o <<"/">>
    \o v.type \o (IF v.type_instance # <<>> THEN <<"-">> \o v.type_instance ELSE <<>>)
    \o <<".", "r", "r", "d">>

(***************************************************************************)
(* C15. Path synthesis: value_list_to_filename returns 0 with exactly the  *)
(* synthesized path in the buffer when the path and its terminating NUL    *)
(* fit the buffer, and -1 when they do not; the path is a function of      *)
(* DataDir and the identity alone.                                         *)
(***************************************************************************)
C15_PathSynthesis ==
    filename # NoFilename =>
        LET path == SynthesizedPath(datadir, vl)
        IN  IF Len(path) < FilenameLen
            THEN filename.ret = 0 /\ filename.buffer = path /\ filename.offset = Len(path)
            ELSE filename.ret = -1

\* a path with the DataDir prefix and both instance suffixes that fills the
\* buffer to the last byte before the NUL
C15_Witness ==
    /\ filename.ret = 0
    /\ datadir.set
    /\ vl.plugin_instance # <<>>
    /\ vl.type_instance # <<>>
    /\ Len(filename.buffer) = FilenameLen - 1

\* timespan k is long enough for rrarows rows
SpanAccepted(k) == int_div(rra_rts[k], stepsize) >= rrarows

\* the consolidation length the claim gives timespan k
SpanCdpLen(k) ==
    IF \A j \in 1..(k - 1) : ~SpanAccepted(j) THEN 1
    ELSE rra_rts[k] \div (rrarows * stepsize)

\* the definitions of timespans k.. : three for each accepted one, in order
RECURSIVE ExpectedRras(_)
ExpectedRras(k) ==
    IF k > Len(rra_rts) THEN <<>>
    ELSE (IF SpanAccepted(k)
          THEN [j \in 1..3 |->
                   [type |-> <<"AVERAGE", "MIN", "MAX">>[j],
                    cdp_len |-> SpanCdpLen(k),
                    cdp_num |-> CeilDiv(rra_rts[k], SpanCdpLen(k) * stepsize)]]
          ELSE <<>>) \o ExpectedRras(k + 1)

(***************************************************************************)
(* C16. Archive definitions: with stepsize >= 1 and rrarows >= 1, rra_get  *)
(* returns, for each timespan in order with span / stepsize >= rrarows,    *)
(* one definition for each of AVERAGE, MIN, MAX with cdp_len 1 for the     *)
(* first such timespan and floor (span / (rrarows * stepsize)) for the     *)
(* others, and cdp_num = ceil (span / (cdp_len * stepsize)); shorter       *)
(* timespans give nothing; stepsize <= 0 or rrarows <= 0 fails. (A call    *)
(* whose malloc fails returns -1.)                                         *)
(***************************************************************************)
C16_RraSynthesis ==
    rra_ret.called =>
        IF rra_def.null \/ stepsize <= 0 \/ rrarows <= 0
        THEN rra_ret.status = -1
        ELSE /\ rra_ret.status = Len(ExpectedRras(1))
             /\ rra_ret.ret = ExpectedRras(1)

\* of three timespans one was skipped, one accepted as the first and a later
\* one consolidated over more than one step
C16_Witness ==
    /\ rra_ret.called
    /\ rra_ret.status = 6
    /\ Len(rra_rts) = 3
    /\ rra_ret.ret[1].cdp_len = 1
    /\ rra_ret.ret[4].cdp_len >= 2

\* the step in which rrd_init runs
RrdInitRuns == pc = Configuring /\ (pc' # Configuring \/ crashed')

(***************************************************************************)
(* C17. Flush-timeout normalisation: for every accepted CacheTimeout and   *)
(* CacheFlush, after rrd_init cache_flush_timeout >= cache_timeout; with   *)
(* CacheTimeout >= 2 and CacheFlush unset or smaller than CacheTimeout,    *)
(* cache_flush_timeout = 10 * cache_timeout; with CacheTimeout < 2 both    *)
(* are 0.                                                                  *)
(***************************************************************************)
C17_FlushTimeoutNormalised ==
    [][RrdInitRuns =>
          /\ ~crashed'
          /\ cache_flush_timeout' >= cache_timeout'
          /\ (cache_timeout >= 2 /\ cache_flush_timeout < cache_timeout) =>
                 (cache_timeout' = cache_timeout /\ cache_flush_timeout' = 10 * cache_timeout)
          /\ cache_timeout < 2 => (cache_timeout' = 0 /\ cache_flush_timeout' = 0)]_vars

\* last_ts - first_ts of an entry
Span(rc) == rc.last_value - rc.first_value

\* a write call is on its way into rrd_queue_cache_entry for file f
EnqueueingByInsert(f) ==
    \E p \in Producers :
        /\ pc[p] \in {"queue_call", "queue_locked"}
        /\ qarg[p] = [filename |-> f, site |-> "insert", status |-> 0]

\* a write call enters rrd_queue_cache_entry only for an entry that spans
\* cache_timeout or more and is not flagged
EnqueuedAtThresholdOnly ==
    \A p \in Producers :
        (pc[p] = "queue_call" /\ qarg[p].site = "insert") =>
            /\ Span(cache[qarg[p].filename]) >= cache_timeout
            /\ cache[qarg[p].filename].flags = FLAG_NONE

\* past the threshold test of a write call, an entry that spans cache_timeout or
\* more is flagged QUEUED
QueuedAtThreshold(p) ==
    (pc[p] = "flush_check" /\ Span(cache[arg[p].filename]) >= cache_timeout) =>
        cache[arg[p].filename].flags = FLAG_QUEUED

\* an entry with values that no call is about to queue and that is not
\* flagged spans less than cache_timeout: the call that queues a path is the
\* first one to reach the threshold
UnqueuedBelowThreshold ==
    \A f \in DOMAIN cache :
        (cache[f].flags = FLAG_NONE /\ values_num(cache[f]) > 0 /\ ~EnqueueingByInsert(f)) =>
            Span(cache[f]) < cache_timeout

\* the drain takes the whole buffer of an entry and rrd_update is handed the
\* whole batch, in the order of the buffer
BatchIsWholeBuffer ==
    /\ (pc[WORKER] = "w_drain" /\ pc'[WORKER] = "w_write") =>
           \E g \in DOMAIN cache :
               /\ wloc'.values = cache[g].values
               /\ cache'[g].values = <<>>
    /\ (pc[WORKER] = "w_write" /\ Len(updates') > Len(updates)) =>
           updates'[Len(updates')].values = wloc.values

\* every value accepted so far is in an rrd_update call, in the hands of the
\* queue thread or in a buffer
AcceptedIds == {id \in 1..Len(calls) : calls[id] \in {"ok", "pending"}}

NothingMissing == {v.id : v \in Range(Written) \cup Buffered} = AcceptedIds

C19_QueuedIsInQueue ==
    ~cache_null =>
        \A f \in DOMAIN cache :
            cache[f].flags = FLAG_QUEUED => f \in Range(QueueSeq)

(***************************************************************************)
(* C19, amended. The file name of an entry flagged QUEUED is in the queue, *)
(* or the queue thread has dequeued it and is about to drain the entry.    *)
(***************************************************************************)
C19_QueuedIsInQueueOrDequeued ==
    ~cache_null =>
        \A f \in DOMAIN cache :
            cache[f].flags = FLAG_QUEUED => f \in Range(QueueSeq) \cup Draining

\* the queue thread has dequeued the file name of a flagged entry and not yet
\* drained the entry, while the flagged entry of another file is in the queue
C19_Witness ==
    \E f \in DOMAIN cache : \E g \in DOMAIN cache :
        /\ f # g
        /\ cache[f].flags = FLAG_QUEUED
        /\ f \in Draining
        /\ f \notin Range(QueueSeq)
        /\ cache[g].flags = FLAG_QUEUED
        /\ g \in Range(QueueSeq)

\* the step in which the queue thread looks up a dequeued file name that has
\* no entry in the tree
DrainFindsNoEntry ==
    /\ pc[WORKER] = "w_drain"
    /\ qnode[wloc.queue_entry].filename \notin DOMAIN cache
    /\ pc'[WORKER] # "w_drain" \/ (crashed' /\ ~assert_failed')

(***************************************************************************)
(* C20. Drain of a missing entry: when the queue thread has dequeued a     *)
(* file name that has no entry in the tree, the drain gives an empty       *)
(* batch, rrd_update is not called, the tree is unchanged and the queue    *)
(* thread goes on with its loop.                                           *)
(***************************************************************************)
C20_MissingEntryDrainsEmpty ==
    [][DrainFindsNoEntry =>
          /\ ~crashed'
          /\ cache' = cache
          /\ wloc'.values = <<>>
          /\ pc'[WORKER] \in {"w_write", "w_lock"}]_vars

\* the step of a flush pass after its loop: the removals, or a failed assert
FlushRemoves(t) == pc[t] = "flush" /\ fl[t].iter = <<>> /\ fl'[t] = NoFlush

\* the pass removes marked entries only, every one of them unflagged, without
\* values array, as old as the timeout and not in the queue, and no assert fails
EvictionIsSafe(t) ==
    FlushRemoves(t) =>
        /\ ~assert_failed'
        /\ (DOMAIN cache \ DOMAIN cache') \subseteq Range(fl[t].keys)
        /\ \A k \in Range(fl[t].keys) :
              /\ cache[k].flags = FLAG_NONE
              /\ values_num(cache[k]) = 0
              /\ cache[k].values_null
              /\ (fl[t].now - cache[k].first_value) >= fl[t].timeout
              /\ k \notin Range(QueueSeq)

(***************************************************************************)
(* C21. Eviction safety: a flush pass removes an entry only if the entry   *)
(* is not flagged QUEUED, has no values and is at least timeout old at     *)
(* that pass; the asserts values == NULL and values_num == 0 hold at every *)
(* removal, and no entry with values and no entry whose file name is in    *)
(* the queue is removed.                                                   *)
(***************************************************************************)
C21_EvictionSafe == [][\A t \in Callers : EvictionIsSafe(t)]_vars

\* a write call returns from rrd_cache_insert before the flush check
SubmitReturnsEarly == Len(calls') = Len(calls) + 1 /\ calls'[Len(calls')] # "pending"

\* with the clock at w a pass is due
PassDueAt(w) ==
    /\ cache_timeout >= MIN_CACHE_TIMEOUT
    /\ (w - cache_flush_last) > cache_flush_timeout

\* the flush check of a write call
ChecksFlush(p) == pc[p] = "flush_check" /\ pc'[p] # "flush_check"

\* a pass is over: it returns to its caller or stops at an assert
PassEnds(t) == pc[t] = "flush" /\ (pc'[t] = FlushReturn(t) \/ (assert_failed' /\ ~assert_failed))

\* a pass returns from the failed realloc of keys
PassGivesUp(t) == pc[t] = "flush" /\ fl[t].iter # <<>> /\ pc'[t] = FlushReturn(t)

\* an entry without values and without flag, cache_flush_timeout old at tnow
Evictable(rc, tnow) ==
    /\ rc.flags = FLAG_NONE
    /\ values_num(rc) = 0
    /\ (tnow - rc.first_value) >= cache_flush_timeout

PassEvicts(t) ==
    \A k \in DOMAIN cache : Evictable(cache[k], fl[t].now) => k \notin DOMAIN cache'

EntryIsOrdered(rc) ==
    /\ StrictlyIncreasing(TimesOf(rc.values))
    /\ rc.values # <<>> =>
          /\ rc.first_value = rc.values[1].time
          /\ rc.last_value = rc.values[Len(rc.values)].time

\* this step has appended one value with timestamp rc.last_value to old
AppendsTo(old, rc) ==
    /\ Len(rc.values) = Len(old.values) + 1
    /\ SubSeq(rc.values, 1, Len(old.values)) = old.values
    /\ rc.values[Len(rc.values)].time = rc.last_value

\* last_value is set only together with an appended value
LastValueFollowsAppend ==
    \A f \in DOMAIN cache' :
        IF f \in DOMAIN cache
        THEN cache'[f].last_value # cache[f].last_value => AppendsTo(cache[f], cache'[f])
        ELSE AppendsTo(rrd_cache_new, cache'[f])

(***************************************************************************)
(* C23. Entry invariants: the values of an entry are strictly increasing   *)
(* by timestamp; when the entry has values, first_value is the timestamp   *)
(* of the first one; last_value is the timestamp of the last value ever    *)
(* appended to the entry: a drain does not reset it, and it changes only   *)
(* in a step that appends a value.                                         *)
(***************************************************************************)
C23_EntryInvariants ==
    /\ [](\A f \in DOMAIN cache : EntryIsOrdered(cache[f]))
    /\ [][LastValueFollowsAppend]_vars

NoDuplicates(seq) == \A i \in 1..Len(seq) : \A j \in 1..Len(seq) : seq[i] = seq[j] => i = j

\* the queue holds a file name once at most and is no longer than the tree is big
QueueIsBounded ==
    /\ NoDuplicates(QueueSeq)
    /\ Len(QueueSeq) <= Cardinality(DOMAIN cache)

\* a step that links a queue entry does so for an entry that was not flagged
EnqueuesUnflagged ==
    Len(QueueSeq') = Len(QueueSeq) + 1 =>
        LET f == QueueSeq'[Len(QueueSeq')]
        IN  f \in DOMAIN cache /\ cache[f].flags # FLAG_QUEUED

(***************************************************************************)
(* C24. Queue depth bound: a file name is in the queue at most once, the   *)
(* queue is never longer than the number of entries in the tree, and an    *)
(* entry flagged QUEUED is not enqueued again before the queue thread has  *)
(* drained it.                                                             *)
(***************************************************************************)
C24_QueueDepthBound == []QueueIsBounded /\ [][EnqueuesUnflagged]_vars

\* the queue changes at its two ends only: a step leaves it alone, links one
\* file name behind the last, or is the queue thread taking the first
QueueStepIsFifo ==
    IF WorkerDequeues
    THEN /\ QueueSeq # <<>>
         /\ QueueSeq' = Tail(QueueSeq)
         /\ wloc'.queue_entry = queue_head
         /\ qnode'[wloc'.queue_entry].filename = Head(QueueSeq)
         /\ Len(QueueSeq) = 1 => queue_head' = NULL /\ queue_tail' = NULL
    ELSE \/ QueueSeq' = QueueSeq
         \/ \E f \in Paths : QueueSeq' = Append(QueueSeq, f)

(***************************************************************************)
(* C25. FIFO order: the queue thread dequeues the file names in exactly    *)
(* the order in which they were enqueued; queue_head is NULL if and only   *)
(* if queue_tail is NULL, and dequeuing the last entry leaves both NULL.   *)
(***************************************************************************)
C25_FifoOrder ==
    /\ []((queue_head = NULL) = (queue_tail = NULL))
    /\ [][QueueStepIsFifo]_vars

\* the queue thread has taken the first of two different file names
C25_Witness ==
    /\ pc[WORKER] = "w_drain"
    /\ QueueSeq # <<>>
    /\ qnode[wloc.queue_entry].filename # Head(QueueSeq)

\* a write call of p returns in this step, with any outcome
SubmitReturns(p) ==
    /\ pc'[p] = "idle"
    /\ \E id \in 1..Len(calls') :
          /\ calls'[id] # "pending"
          /\ id \in 1..Len(calls) => calls[id] = "pending"

(***************************************************************************)
(* C26. Lock release on every outcome: whatever rrd_cache_insert returns   *)
(* (success, rejected timestamp, any allocation failure, the malloc of a   *)
(* fresh entry included), the calling thread does not own cache_lock once  *)
(* the call has returned.                                                  *)
(***************************************************************************)
C26_LockReleased ==
    /\ [][\A p \in Producers : SubmitReturns(p) => cache_lock' # p]_vars
    /\ [](\A p \in Producers : pc[p] = "idle" => cache_lock # p)

\* file name f has an entry in the tree, flagged QUEUED
BackedByEntry(f) == f \in DOMAIN cache /\ cache[f].flags = FLAG_QUEUED

(***************************************************************************)
(* C27. Queued paths are backed by entries: for every file name in the     *)
(* queue, and for the one the queue thread has dequeued and not yet        *)
(* drained, the tree has an entry and its flags are QUEUED; so the queue   *)
(* thread's avl_get always finds an entry.                                 *)
(***************************************************************************)
C27_QueuedPathsBacked == \A f \in Range(QueueSeq) \cup Draining : BackedByEntry(f)

(***************************************************************************)
(* Scheduling. Every thread that can run does run: the queue thread takes  *)
(* its next step when the mutex it needs is free (a wakeup without signal  *)
(* is never owed to it), and a thread inside rrd_cache_insert or           *)
(* rrd_shutdown goes on to the end of that call. Nothing obliges the host  *)
(* to start a call.                                                        *)
(***************************************************************************)
WorkerRuns ==
    \/ QueueThreadWait \/ QueueThreadWake \/ QueueThreadBreak \/ QueueThreadDequeue
    \/ QueueThreadDrain \/ QueueThreadDrainMissing \/ QueueThreadWrite
    \/ QueueThreadDestroy

CallerRuns(t) ==
    \/ t \in Producers /\ (CacheInsertFlushCheck(t) \/ CacheInsertUnlock(t))
    \/ QueueEntryAllocFail(t) \/ QueueEntryLock(t) \/ QueueEntryAppend(t)
    \/ CacheFlushIterate(t) \/ CacheFlushReallocFail(t) \/ CacheFlushRemove(t)
    \/ t = SHUTDOWN /\ (ShutdownUnlock \/ ShutdownSignal)

Fairness == WF_vars(WorkerRuns) /\ \A t \in Callers : WF_vars(CallerRuns(t))

SpecFair == Init /\ [][Next]_vars /\ Fairness

\* the queue thread has just taken the values of file name f and reset its entry
JustDrained(f) ==
    /\ pc[WORKER] = "w_write"
    /\ qnode[wloc.queue_entry].filename = f
    /\ f \in DOMAIN cache
    /\ cache[f].values = <<>>
    /\ cache[f].flags = FLAG_NONE

\* the queue thread sleeps in pthread_cond_wait only while there is nothing to
\* do, or with a signal pending
NoWakeupLost ==
    (pc[WORKER] = "w_wait" /\ ~signaled) => (queue_head = NULL /\ do_shutdown = 0)

(***************************************************************************)
(* C28. Enqueue-to-drain liveness: with the queue thread scheduled fairly, *)
(* every file name linked into the queue is eventually dequeued and its    *)
(* entry drained, values taken and flags back to NONE; and no wakeup is    *)
(* lost: the queue thread never sleeps unsignalled while the queue has an  *)
(* entry.                                                                  *)
(***************************************************************************)
C28_EnqueueLeadsToDrain ==
    /\ \A f \in Paths : (f \in Range(QueueSeq)) ~> JustDrained(f)
    /\ []NoWakeupLost

\* the timespans rra_get makes definitions for
AcceptedSpans == {k \in 1..Len(rra_rts) : SpanAccepted(k)}

\* rra_get was called with stepsize and rrarows positive and its malloc succeeded
RraGetSucceeded == rra_ret.called /\ stepsize >= 1 /\ rrarows >= 1 /\ rra_ret.status >= 0

(***************************************************************************)
(* C29. RRA arithmetic safety: with stepsize >= 1 and rrarows >= 1 every   *)
(* definition rra_get emits has cdp_len >= 1 and cdp_num >= rrarows, and   *)
(* the number of definitions is three times the number of accepted         *)
(* timespans, at most three times the number of configured timespans.      *)
(***************************************************************************)
C29_RraArithmetic ==
    RraGetSucceeded =>
        /\ \A i \in 1..Len(rra_ret.ret) :
              rra_ret.ret[i].cdp_len >= 1 /\ rra_ret.ret[i].cdp_num >= rrarows
        /\ rra_ret.status = Len(rra_ret.ret)
        /\ Len(rra_ret.ret) = 3 * Cardinality(AcceptedSpans)
        /\ Len(rra_ret.ret) <= 3 * Len(rra_rts)

\* three configured timespans, one too short, one of the others consolidated
C29_Witness ==
    /\ RraGetSucceeded
    /\ Len(rra_timespans_custom) = 3
    /\ Cardinality(AcceptedSpans) = 2
    /\ \E i \in 1..Len(rra_ret.ret) : rra_ret.ret[i].cdp_len >= 2
====
